---- MODULE Spec2Model ----
(***************************************************************************)
(* Time simulation and windowing engine of the dashboard:                  *)
(* the useLiveSimulation hook (dataset normalisation, range effect, timer  *)
(* loop, resetSimulation) driven by the LIVE / 24H / 48H buttons of the    *)
(* views that use it, and the block building of the GanttChart.            *)
(*                                                                         *)
(* Time is counted in minutes: one unit is 60 * 1000 ms, so the source's   *)
(* 24 * 60 * 60 * 1000 is Day = 24 * 60, and (replaySpeed / 10) * 60 *     *)
(* 1000 is replaySpeed / 10.  Timestamps are whole minutes and the local   *)
(* time zone is UTC, so local midnight of t is t - (t % Day).              *)
(*                                                                         *)
(* A record carries cow_id, timestamp and the nine fields the noise is     *)
(* added to.  Its timestamp is a string: [at |-> the instant it denotes,   *)
(* iso |-> whether it is written as toISOString() writes it or as the CSV  *)
(* does].  The pct_* fields are counted in thousandths (1.0 is 1000),      *)
(* neck_temp_c, activity_index and heat_index in hundredths, gps_lat and   *)
(* gps_long in millionths of a degree.                                     *)
(***************************************************************************)
EXTENDS Integers, Sequences, FiniteSets, TLC

VARIABLES
    view,           \* which component owns the instance, or "unmounted"
    loading,        \* useCowData: the CSV has not been parsed yet
    inputData,      \* useCowData data, the hook's inputData
    isLive,         \* mode === 'LIVE'
    replaySpeed,    \* view state replaySpeed
    historyHours,   \* view state historyHours
    fullData,       \* useMemo result
    timeRef,        \* timeRef.current (virtualNow)
    startTimeRef,   \* startTimeRef.current (datasetStart)
    endTimeRef,     \* endTimeRef.current (datasetEnd)
    currentData,    \* the published window (liveData)
    currentTime,    \* the published time
    progress,       \* the published progress, a fraction <<num, den>>
    timers,         \* closures of the active setInterval timers
    dataPoints,     \* GanttChart: the dataPoints prop
    chartData,      \* GanttChart: the useMemo result
    lastOp,         \* history: the operation that produced this state
    replayRun       \* history: REPLAY ticks since virtualNow was datasetStart

vars == <<view, loading, inputData, isLive, replaySpeed, historyHours, fullData,
          timeRef, startTimeRef, endTimeRef, currentData, currentTime, progress,
          timers, dataPoints, chartData, lastOp, replayRun>>

-----------------------------------------------------------------------------
(* Bounds of the model *)

\* longest input dataset
MaxLen == 2
\* wall-clock times of day are sampled every TodStep minutes
TodStep == 480
\* REPLAY ticks counted by replayRun before it saturates
MaxRun == 4
\* minutes below datasetStart past which a clock running backwards is
\* followed no further
MaxBelow == 30
\* longest source array given to the normalisation alone
MaxRows == 3
\* longest array of samples given to the chart
MaxPoints == 3

-----------------------------------------------------------------------------
(* Program constants *)

\* useRef(null) / useState(null): JavaScript treats null as 0 in every test
\* and in every sum the hook applies to the refs, so null is 0 here
Null == 0

\* 24 * 60 * 60 * 1000 ms
Day == 24 * 60

\* the view's default replaySpeed and the one the 24H button sets
DefaultSpeed == 60
\* the speed HealthView's REPLAY 48H button sets
HealthSpeed48 == 120

\* the chart before its first render, and the chart of no data:
\* if (!Array.isArray(dataPoints) || dataPoints.length === 0) return null
NoChart == [null |-> TRUE, blocks |-> <<>>, min |-> Null, max |-> Null]

\* progress before the first tick: useState(0)
ZeroProgress == <<0, 1>>
\* the not-a-number progress (0 / 0)
NaN == <<0, 0>>

-----------------------------------------------------------------------------
(* Inputs *)

\* 08:00 on the third day of the epoch
T0 == 2 * Day + 8 * 60

\* a timestamp as the CSV writes it
CsvTime(t) == [at |-> t, iso |-> FALSE]

\* new Date(t).toISOString()
ToISOString(t) == [at |-> t, iso |-> TRUE]

\* new Date(d.timestamp).getTime(): both ways of writing denote the instant
Time(d) == d.timestamp.at

PctFields == {"pct_lying", "pct_standing", "pct_walking", "pct_eating"}

SensorFields ==
    {"neck_temp_c", "activity_index", "heat_index", "gps_lat", "gps_long"}

\* a row of cow at minute ts: a cow that lies for lying thousandths of the
\* time eats for the rest; cow A carries no activity sensor
Rec(cow, ts, lying) ==
    [cow_id |-> cow, timestamp |-> CsvTime(ts),
     pct_lying |-> lying, pct_standing |-> 0, pct_walking |-> 0,
     pct_eating |-> 1000 - lying,
     neck_temp_c |-> 3850, activity_index |-> IF cow = "A" THEN 0 ELSE 120,
     heat_index |-> 7200, gps_lat |-> 12345678, gps_long |-> 0 - 7654321]

\* the rows of the CSV: a day of readings, 08:00 to 08:00
InputRecords ==
    { Rec("A", T0, 3), Rec("B", T0 + 10, 998), Rec("A", T0 + Day, 500) }

\* the rows a direct caller of the hook passes: ten minutes of readings
CallerRecords == { Rec("A", T0, 3), Rec("B", T0 + 10, 998) }

\* the arrays of at most MaxLen distinct rows of recs, in any order
Arrays(recs) ==
    UNION { { s \in [1..n -> recs] : \A i, j \in 1..n : i # j => s[i] # s[j] }
            : n \in 0..MaxLen }

Datasets == Arrays(InputRecords)

\* rows of sources of any span: two readings of one instant, a span of
\* exactly a day, of more than a day and of two days
SourceRecords ==
    { Rec("A", T0, 3), Rec("B", T0, 998), Rec("A", T0 + 10, 500),
      Rec("B", T0 + Day, 998), Rec("A", T0 + Day + 10, 3),
      Rec("B", T0 + 2 * Day, 500) }

\* the arrays of at most MaxRows distinct rows of SourceRecords, in any order
SourceDatasets ==
    UNION { { s \in [1..n -> SourceRecords] :
                \A i, j \in 1..n : i # j => s[i] # s[j] } : n \in 0..MaxRows }

CallerDatasets == Arrays(CallerRecords)

TODs == { k * TodStep : k \in 0..((Day - 1) \div TodStep) }

\* (Math.random() - 0.5) * k lies in [-k / 2, k / 2): k / 2 in the units of
\* field f, for the factors 0.01, 0.1, 2, 0.5 and 0.0001 of the source
HalfRange(f) ==
    CASE f \in PctFields -> 5
      [] f = "neck_temp_c" -> 5
      [] f = "activity_index" -> 100
      [] f = "heat_index" -> 25
      [] OTHER -> 50

\* the nine draws of one tick, each the least or the greatest it can be
NoiseOf(high) ==
    [f \in PctFields \cup SensorFields |->
        IF f \in high THEN HalfRange(f) - 1 ELSE 0 - HalfRange(f)]

\* all draws low, all high, and some low and some high
Noises ==
    { NoiseOf({}), NoiseOf(PctFields \cup SensorFields),
      NoiseOf({"pct_standing", "pct_eating", "activity_index", "gps_lat"}) }

Views == {"HealthView", "PostureView"}

-----------------------------------------------------------------------------
(* 1. Prepare Data *)

\* InsertSorted that puts r before the records of its timestamp
RECURSIVE InsertSortedUnstable(_, _)
InsertSortedUnstable(s, r) ==
    IF s = <<>> THEN <<r>>
    ELSE IF Time(s[Len(s)]) < Time(r) THEN Append(s, r)
    ELSE Append(InsertSortedUnstable(SubSeq(s, 1, Len(s) - 1), r), s[Len(s)])

\* where the comparator (a, b) => new Date(a.timestamp) - new Date(b.timestamp)
\* of a stable sort puts r into the sorted s
RECURSIVE InsertSorted(_, _)
InsertSorted(s, r) ==
    IF s = <<>> THEN <<r>>
    ELSE IF Time(s[Len(s)]) <= Time(r) THEN Append(s, r)
    ELSE Append(InsertSorted(SubSeq(s, 1, Len(s) - 1), r), s[Len(s)])

\* [...inputData].sort(by timestamp): Array.prototype.sort is stable
RECURSIVE SortByTimestamp(_)
SortByTimestamp(s) ==
    IF s = <<>> THEN <<>>
    ELSE InsertSorted(SortByTimestamp(SubSeq(s, 1, Len(s) - 1)), s[Len(s)])

Shifted(sorted) ==
    [i \in 1..Len(sorted) |->
        [sorted[i] EXCEPT !.timestamp = ToISOString(Time(sorted[i]) - Day)]]

\* FullData with the shifted copies after the originals
FullDataAppend(input, hours) ==
    IF Len(input) = 0 THEN <<>>
    ELSE LET sorted == SortByTimestamp(input) IN
         IF hours <= 24 THEN sorted
         ELSE sorted \o Shifted(sorted)

\* FullData that adds the copies when the source is shorter than the horizon
FullDataBySpan(input, hours) ==
    IF Len(input) = 0 THEN <<>>
    ELSE LET sorted == SortByTimestamp(input) IN
         IF hours * 60 <= Time(sorted[Len(sorted)]) - Time(sorted[1]) THEN sorted
         ELSE Shifted(sorted) \o sorted

FullData(input, hours) ==
    IF Len(input) = 0 THEN <<>>
    ELSE LET sorted == SortByTimestamp(input) IN
         IF hours <= 24 THEN sorted
         ELSE Shifted(sorted) \o sorted

\* the memo failing on an empty input with an extended horizon
ThrownOnEmpty(input, hours) ==
    IF Len(input) = 0 /\ hours > 24 THEN "InvalidInputError" ELSE "none"

\* the error the memo throws: it has no throw statement, and an empty or
\* missing input makes it return []
Thrown(input, hours) == "none"

-----------------------------------------------------------------------------
(* 2. Initialize Range *)

Timestamps(fd) == { Time(fd[i]) : i \in 1..Len(fd) }

MinTs(fd) == CHOOSE t \in Timestamps(fd) : \A u \in Timestamps(fd) : t <= u

MaxTs(fd) == CHOOSE t \in Timestamps(fd) : \A u \in Timestamps(fd) : t >= u

-----------------------------------------------------------------------------
(* 3. Timer Loop *)

\* a tick of replaySpeed minutes
MsPerTickWhole(speed) == speed

\* msPerTick = (replaySpeed / 10) * 60 * 1000, in minutes
MsPerTick(speed) == speed \div 10

\* targetTime: the date of datasetEnd with the wall clock's time of day
TargetTime(end, tod) == (end - (end % Day)) + tod

\* LiveNow without the step back to the previous day
LiveNowNoWrap(start, end, tod) ==
    LET t0 == TargetTime(end, tod) IN
    IF t0 < start THEN t0 + Day ELSE t0

\* LiveNow that never steps back from the virtualNow it finds
LiveNowForward(start, end, tod) ==
    LET t0 == TargetTime(end, tod)
        t1 == IF t0 > end THEN t0 - Day ELSE t0
        t2 == IF t1 < start THEN t1 + Day ELSE t1
    IN  IF timeRef > t2 THEN timeRef ELSE t2

LiveNow(start, end, tod) ==
    LET t0 == TargetTime(end, tod)
        t1 == IF t0 > end THEN t0 - Day ELSE t0
    IN  IF t1 < start THEN t1 + Day ELSE t1

\* ReplayNow with the overshoot carried over the wrap
ReplayNowCarry(now, start, end, speed) ==
    LET n == now + MsPerTick(speed) IN
    IF n >= end THEN start + (n - end) ELSE n

\* ReplayNow that wraps only once past datasetEnd
ReplayNowLate(now, start, end, speed) ==
    LET n == now + MsPerTick(speed) IN
    IF n > end THEN start ELSE n

\* ReplayNow that stops at datasetEnd instead of wrapping
ReplayNowStop(now, start, end, speed) ==
    LET n == now + MsPerTick(speed) IN
    IF n >= end THEN end ELSE n

ReplayNow(now, start, end, speed) ==
    LET n == now + MsPerTick(speed) IN
    IF n >= end THEN start ELSE n

\* Progress without the clamp to [0, 100]
ProgressNoClamp(now, start, end) ==
    IF end = start THEN NaN ELSE <<(now - start) * 100, end - start>>

\* Math.min(100, Math.max(0, (elapsed / total) * 100)) as a fraction
Progress(now, start, end) ==
    LET total == end - start
        elapsed == now - start
    IN  IF total = 0
        THEN (IF elapsed = 0 THEN NaN
              ELSE IF elapsed > 0 THEN <<100, 1>> ELSE <<0, 1>>)
        ELSE IF elapsed * 100 < 0 THEN <<0, 1>>
        ELSE IF elapsed * 100 > 100 * total THEN <<100, 1>>
        ELSE <<elapsed * 100, total>>

\* the filter with a strict comparison
WithinStrict(d, now) == Time(d) < now

\* the filter with the comparison turned round
WithinAfter(d, now) == Time(d) >= now

Within(d, now) == Time(d) <= now

Slice(fd, now) == SelectSeq(fd, LAMBDA d : Within(d, now))

\* Clamp01 left out
NoClamp(x) == x

\* Math.max(0, Math.min(1, x))
Clamp01(x) == IF x > 1000 THEN 1000 ELSE IF x < 0 THEN 0 ELSE x

\* a copy of point p with the noise added: the pct_* fields are clamped,
\* the sensor fields are left alone when falsy (if (lastPoint.neck_temp_c))
LastPoint(p, noise) ==
    [f \in DOMAIN p |->
        IF f \in PctFields THEN Clamp01(p[f] + noise[f])
        ELSE IF f \in SensorFields /\ p[f] # 0 THEN p[f] + noise[f]
        ELSE p[f]]

\* the window with its last point replaced by a noisy copy
AddNoise(sliced, noise) ==
    LET n == Len(sliced)
    IN  SubSeq(sliced, 1, n - 1) \o <<LastPoint(sliced[n], noise)>>

\* the noise added in either mode
NoiseAlways(live, sliced) == Len(sliced) > 0

\* if (isLive && sliced.length > 0)
NoiseApplies(live, sliced) == live /\ Len(sliced) > 0

\* the noise written to the record of the window itself, which is the
\* dataset's: lastPoint = sliced[sliced.length - 1]
RecordsInPlace(records, live, sliced, noise) ==
    IF NoiseApplies(live, sliced)
    THEN [i \in 1..Len(records) |->
            IF records[i] = sliced[Len(sliced)]
            THEN LastPoint(records[i], noise) ELSE records[i]]
    ELSE records

\* the records of an array the tick read its window from, after the tick:
\* lastPoint = { ...sliced[sliced.length - 1] } is a copy, and the window
\* is a new array, so they are as they were
RecordsAfterTick(records, live, sliced, noise) == records

-----------------------------------------------------------------------------
(* History variables *)

NoRun == MaxRun + 1

\* a count of REPLAY ticks starts whenever virtualNow is datasetStart
RunAfterOp == IF timeRef' = startTimeRef' /\ timeRef' # Null THEN 0 ELSE NoRun

-----------------------------------------------------------------------------
(* A render of the hook with the given props followed by its effects.     *)
(* Effect 2 runs when fullData changed and effect 3 when fullData, isLive  *)
(* or replaySpeed changed; both give the same result when they run with    *)
(* unchanged dependencies, so they are applied on every render.  tRef is   *)
(* timeRef.current as the event handler left it.                           *)

\* the timer effect without its early return
TimerNoGuard(fd, start, end) == TRUE

\* what the timer effect asks of replaySpeed before it starts the timer:
\* nothing
SpeedAccepted(speed) == TRUE

TimerGuard(fd, start, end) == Len(fd) # 0 /\ start # Null /\ end # Null

\* a cleanup that clears nothing
NoneCleared(ts) == {}

\* the timers the cleanup of the timer effect clears, of the timers ts the
\* instance has: return () => clearInterval(timer)
Cleared(ts) == ts

Commit(input, live, speed, hours, tRef) ==
    LET fd == FullData(input, hours) IN
    /\ fullData' = fd
    /\ startTimeRef' = IF Len(fd) > 0 THEN MinTs(fd) ELSE startTimeRef
    /\ endTimeRef' = IF Len(fd) > 0 THEN MaxTs(fd) ELSE endTimeRef
    /\ timeRef' = IF Len(fd) > 0 /\ tRef = Null THEN MinTs(fd) ELSE tRef
    /\ timers' = (timers \ Cleared(timers)) \cup
                 IF TimerGuard(fd, startTimeRef', endTimeRef') /\ SpeedAccepted(speed)
                 THEN {[fullData |-> fd, isLive |-> live, replaySpeed |-> speed]}
                 ELSE {}

\* the input data arrives: one of the arrays of from
LoadFrom(from) ==
    /\ loading
    /\ \E d \in from :
        /\ inputData' = d
        /\ Commit(d, isLive, replaySpeed, historyHours, timeRef)
    /\ loading' = FALSE
    /\ lastOp' = "load"
    /\ replayRun' = RunAfterOp
    /\ UNCHANGED <<view, isLive, replaySpeed, historyHours, currentData,
                   currentTime, progress, dataPoints, chartData>>

\* useCowData: Papa.parse completes (or fails, leaving data empty)
LoadData == LoadFrom(Datasets)

-----------------------------------------------------------------------------
(* The interval callback *)

\* noise holds what Math.random() returns to this tick for each field
Publish(c, now, noise) ==
    LET sliced == Slice(c.fullData, now) IN
    /\ timeRef' = now
    /\ currentTime' = now
    /\ progress' = Progress(now, startTimeRef, endTimeRef)
    /\ currentData' = IF NoiseApplies(c.isLive, sliced)
                      THEN AddNoise(sliced, noise) ELSE sliced
    /\ fullData' = RecordsAfterTick(fullData, c.isLive, sliced, noise)
    /\ inputData' = RecordsAfterTick(inputData, c.isLive, sliced, noise)

TickLive(c, noise) ==
    /\ c.isLive
    /\ \E tod \in TODs :
        Publish(c, LiveNow(startTimeRef, endTimeRef, tod), noise)
    /\ lastOp' = "tickLive"
    /\ replayRun' = RunAfterOp

TickReplay(c, noise) ==
    /\ ~c.isLive
    /\ Publish(c, ReplayNow(timeRef, startTimeRef, endTimeRef, c.replaySpeed),
               noise)
    /\ lastOp' = "tickReplay"
    /\ replayRun' = IF replayRun < MaxRun THEN replayRun + 1 ELSE RunAfterOp

Tick ==
    /\ UNCHANGED <<view, loading, isLive, replaySpeed, historyHours,
                   startTimeRef, endTimeRef, timers, dataPoints, chartData>>
    /\ \E c \in timers, noise \in Noises : TickLive(c, noise) \/ TickReplay(c, noise)

-----------------------------------------------------------------------------
(* resetSimulation and the buttons that call it *)

\* whether resetSimulation does anything: if (startTimeRef.current)
ResetApplies == startTimeRef # Null

\* a reset that also publishes progress 0
ProgressZeroed(didReset, p) == IF didReset THEN ZeroProgress ELSE p

\* the published progress after the handler: resetSimulation calls
\* setCurrentTime and setCurrentData only, and no handler calls setProgress
ProgressAfterReset(didReset, p) == p

\* an event handler that sets the view state and, when doReset, calls
\* resetSimulation(), followed by the render it causes.  resetSimulation
\* reads startTimeRef as the previous render left it; the state updates are
\* batched and the render with its effects follows in the same task, so no
\* interval callback runs in between.
Handler(live, hours, speed, doReset) ==
    LET didReset == doReset /\ ResetApplies IN
    /\ isLive' = live
    /\ historyHours' = hours
    /\ replaySpeed' = speed
    /\ currentTime' = IF didReset THEN startTimeRef ELSE currentTime
    /\ currentData' = IF didReset THEN <<>> ELSE currentData
    /\ Commit(inputData, live, speed, hours,
              IF didReset THEN startTimeRef ELSE timeRef)
    /\ progress' = ProgressAfterReset(didReset, progress)
    /\ replayRun' = RunAfterOp
    /\ UNCHANGED <<view, loading, inputData, dataPoints, chartData>>

\* HealthView renders its buttons only once loading is over
ButtonsShown == view = "PostureView" \/ ~loading

LiveResets == FALSE

ClickLive ==
    /\ ButtonsShown
    /\ Handler(TRUE, 24, replaySpeed, LiveResets)
    /\ lastOp' = "clickLive"

ClickReplay24 ==
    /\ ButtonsShown
    /\ Handler(FALSE, 24, DefaultSpeed, TRUE)
    /\ lastOp' = "click24"

Speed48 == IF view = "HealthView" THEN HealthSpeed48 ELSE DefaultSpeed

ClickReplay48 ==
    /\ ButtonsShown
    /\ Handler(FALSE, 48, Speed48, TRUE)
    /\ lastOp' = "click48"

-----------------------------------------------------------------------------
(* The views *)

Init ==
    /\ view \in Views
    /\ loading = TRUE
    /\ inputData = <<>>
    /\ isLive = TRUE
    /\ replaySpeed = DefaultSpeed
    /\ historyHours = 24
    /\ fullData = <<>>
    /\ timeRef = Null
    /\ startTimeRef = Null
    /\ endTimeRef = Null
    /\ currentData = <<>>
    /\ currentTime = Null
    /\ progress = ZeroProgress
    /\ timers = {}
    /\ dataPoints = <<>>
    /\ chartData = NoChart
    /\ lastOp = "init"
    /\ replayRun = NoRun

Next == LoadData \/ Tick \/ ClickLive \/ ClickReplay24 \/ ClickReplay48

Spec == Init /\ [][Next]_vars

-----------------------------------------------------------------------------
(* The views until they are unmounted *)

Mounted == view \in Views

\* the view is unmounted: React runs the cleanup of the timer effect; the
\* hook's state is kept here as it was when the view went
Unmount ==
    /\ Mounted
    /\ view' = "unmounted"
    /\ timers' = timers \ Cleared(timers)
    /\ lastOp' = "unmount"
    /\ UNCHANGED <<loading, inputData, isLive, replaySpeed, historyHours,
                   fullData, timeRef, startTimeRef, endTimeRef, currentData,
                   currentTime, progress, dataPoints, chartData, replayRun>>

\* a mounted view takes the data and the clicks; a timer fires for as long
\* as it is not cleared
NextMounted ==
    \/ Mounted /\ (LoadData \/ ClickLive \/ ClickReplay24 \/ ClickReplay48)
    \/ Tick
    \/ Unmount

SpecMounted == Init /\ [][NextMounted]_vars

-----------------------------------------------------------------------------
(* The hook driven directly by a caller that passes any props *)

Speeds == {30, 60}

\* the caller's data arrives
PassData == LoadFrom(CallerDatasets)

resetSimulation ==
    /\ Handler(isLive, historyHours, replaySpeed, TRUE)
    /\ lastOp' = "reset"

SetProps ==
    /\ \E live \in BOOLEAN, hours \in {24, 48}, speed \in Speeds :
        /\ <<live, hours, speed>> # <<isLive, historyHours, replaySpeed>>
        /\ Handler(live, hours, speed, FALSE)
    /\ lastOp' = "setProps"

InitHook ==
    /\ view = "caller"
    /\ loading = TRUE
    /\ inputData = <<>>
    /\ isLive \in BOOLEAN
    /\ replaySpeed \in Speeds
    /\ historyHours \in {24, 48}
    /\ fullData = <<>>
    /\ timeRef = Null
    /\ startTimeRef = Null
    /\ endTimeRef = Null
    /\ currentData = <<>>
    /\ currentTime = Null
    /\ progress = ZeroProgress
    /\ timers = {}
    /\ dataPoints = <<>>
    /\ chartData = NoChart
    /\ lastOp = "init"
    /\ replayRun = NoRun

NextHook == PassData \/ Tick \/ resetSimulation \/ SetProps

SpecHook == InitHook /\ [][NextHook]_vars

-----------------------------------------------------------------------------
(* The hook called with a replaySpeed of any sign *)

AnySpeeds == {0 - 60, 0, 60}

InitAnySpeed ==
    /\ view = "caller"
    /\ loading = TRUE
    /\ inputData = <<>>
    /\ isLive \in BOOLEAN
    /\ replaySpeed \in AnySpeeds
    /\ historyHours \in {24, 48}
    /\ fullData = <<>>
    /\ timeRef = Null
    /\ startTimeRef = Null
    /\ endTimeRef = Null
    /\ currentData = <<>>
    /\ currentTime = Null
    /\ progress = ZeroProgress
    /\ timers = {}
    /\ dataPoints = <<>>
    /\ chartData = NoChart
    /\ lastOp = "init"
    /\ replayRun = NoRun

\* a tick of a clock that is not yet MaxBelow minutes below datasetStart
TickAbove ==
    /\ timeRef >= startTimeRef - MaxBelow
    /\ Tick

NextAnySpeed == PassData \/ TickAbove \/ resetSimulation

SpecAnySpeed == InitAnySpeed /\ [][NextAnySpeed]_vars

-----------------------------------------------------------------------------
(* GanttChart: the blocks of chartData *)

\* a sample as PostureView hands it over
Point(animal, state, ts) == [animalId |-> animal, state |-> state, timestamp |-> ts]

\* animal ids in the order of JavaScript's < on strings
AnimalIds == <<"A", "B">>

Rank(animal) == CHOOSE i \in 1..Len(AnimalIds) : AnimalIds[i] = animal

Points ==
    { Point(AnimalIds[a], state, ts) : a \in 1..Len(AnimalIds), state \in {0, 1},
                                       ts \in {0, 10, 20} }

\* the arrays of at most MaxPoints samples, repeated ones included
PointArrays == UNION { [1..n -> Points] : n \in 0..MaxPoints }

\* six samples of animal A with the states 0, 0, 1, 1, 1, 0
ExampleRun ==
    <<Point("A", 0, 0), Point("A", 0, 10), Point("A", 1, 20),
      Point("A", 1, 30), Point("A", 1, 40), Point("A", 0, 50)>>

\* ExampleRun in every order
ExampleArrays ==
    { [i \in 1..Len(ExampleRun) |-> ExampleRun[p[i]]] :
        p \in { q \in [1..Len(ExampleRun) -> 1..Len(ExampleRun)] :
                  \A i, j \in 1..Len(ExampleRun) : i # j => q[i] # q[j] } }

\* the comparator that orders by animal only
ComparePointsByAnimal(a, b) ==
    IF Rank(a.animalId) < Rank(b.animalId) THEN 0 - 1
    ELSE IF Rank(a.animalId) > Rank(b.animalId) THEN 1
    ELSE 0

\* the comparator of the sort: by animalId, then by timestamp
ComparePoints(a, b) ==
    IF Rank(a.animalId) < Rank(b.animalId) THEN 0 - 1
    ELSE IF Rank(a.animalId) > Rank(b.animalId) THEN 1
    ELSE a.timestamp - b.timestamp

RECURSIVE InsertPoint(_, _)
InsertPoint(s, r) ==
    IF s = <<>> THEN <<r>>
    ELSE IF ComparePoints(s[Len(s)], r) <= 0 THEN Append(s, r)
    ELSE Append(InsertPoint(SubSeq(s, 1, Len(s) - 1), r), s[Len(s)])

\* the samples left in the order they were given
SortedDataAsGiven(s) == s

\* [...dataPoints].sort(comparator): Array.prototype.sort is stable
RECURSIVE SortedData(_)
SortedData(s) ==
    IF s = <<>> THEN <<>>
    ELSE InsertPoint(SortedData(SubSeq(s, 1, Len(s) - 1)), s[Len(s)])

\* every sample its own block
BreakAlways(point, currentBlock) == TRUE

\* Break block if state changes OR animal changes
BreakBlock(point, currentBlock) ==
    point.state # currentBlock.state \/ point.animalId # currentBlock.animalId

BlockAt(point) ==
    [state |-> point.state, start |-> point.timestamp, end |-> point.timestamp,
     animalId |-> point.animalId]

\* the loop without the blocks.push(currentBlock) that follows it
RECURSIVE BuildBlocksNoLast(_, _, _, _)
BuildBlocksNoLast(sortedData, i, blocks, currentBlock) ==
    IF i > Len(sortedData) THEN blocks
    ELSE LET point == sortedData[i] IN
         IF BreakBlock(point, currentBlock)
         THEN BuildBlocksNoLast(sortedData, i + 1, Append(blocks, currentBlock),
                                BlockAt(point))
         ELSE BuildBlocksNoLast(sortedData, i + 1, blocks,
                                [currentBlock EXCEPT !.end = point.timestamp])

\* the loop from its i-th sample on
RECURSIVE BuildBlocks(_, _, _, _)
BuildBlocks(sortedData, i, blocks, currentBlock) ==
    IF i > Len(sortedData) THEN Append(blocks, currentBlock)
    ELSE LET point == sortedData[i] IN
         IF BreakBlock(point, currentBlock)
         THEN BuildBlocks(sortedData, i + 1, Append(blocks, currentBlock),
                          BlockAt(point))
         ELSE BuildBlocks(sortedData, i + 1, blocks,
                          [currentBlock EXCEPT !.end = point.timestamp])

ChartData(points) ==
    IF Len(points) = 0 THEN NoChart
    ELSE LET sortedData == SortedData(points)
             blocks == BuildBlocks(sortedData, 2, <<>>, BlockAt(sortedData[1]))
         IN  [null |-> FALSE, blocks |-> blocks,
              min |-> blocks[1].start, max |-> blocks[Len(blocks)].end]

\* the samples sorted where they are: dataPoints.sort(comparator)
PointsSortedInPlace(points) == SortedData(points)

\* the dataPoints array after the memo ran: the sort is applied to the copy
\* [...dataPoints]
PointsAfterSort(points) == points

\* the chart is rendered with its dataPoints
RenderChart ==
    /\ lastOp = "init"
    /\ chartData' = ChartData(dataPoints)
    /\ dataPoints' = PointsAfterSort(dataPoints)
    /\ lastOp' = "chart"
    /\ UNCHANGED <<view, loading, inputData, isLive, replaySpeed, historyHours,
                   fullData, timeRef, startTimeRef, endTimeRef, currentData,
                   currentTime, progress, timers, replayRun>>

InitChart ==
    /\ view = "GanttChart"
    /\ loading = TRUE
    /\ inputData = <<>>
    /\ isLive = FALSE
    /\ replaySpeed = DefaultSpeed
    /\ historyHours = 24
    /\ fullData = <<>>
    /\ timeRef = Null
    /\ startTimeRef = Null
    /\ endTimeRef = Null
    /\ currentData = <<>>
    /\ currentTime = Null
    /\ progress = ZeroProgress
    /\ timers = {}
    /\ dataPoints \in PointArrays \cup ExampleArrays
    /\ chartData = NoChart
    /\ lastOp = "init"
    /\ replayRun = NoRun

NextChart == RenderChart

SpecChart == InitChart /\ [][NextChart]_vars

-----------------------------------------------------------------------------
(* The hook left running on the data it was given: setInterval calls the   *)
(* callback every 100 ms for as long as the timer is not cleared           *)

NextRunning == PassData \/ Tick

SpecRunning == InitHook /\ [][NextRunning]_vars /\ WF_vars(Tick)

-----------------------------------------------------------------------------
(* The normalisation alone: the first render of the hook with a source     *)
(* of any span                                                             *)

PassSource == LoadFrom(SourceDatasets)

NextNormalize == PassSource

SpecNormalize == InitHook /\ [][NextNormalize]_vars

-----------------------------------------------------------------------------
(* Properties *)

Ticked == lastOp \in {"tickLive", "tickReplay"}

InRange(t) == startTimeRef <= t /\ t <= endTimeRef

\* C1: in REPLAY mode, after every tick virtualNow lies within
\* [datasetStart, datasetEnd] of the dataset in use, whatever ticks, resets,
\* mode switches and horizon switches came before.
C1_ReplayTickInRange == lastOp = "tickReplay" => InRange(timeRef)

\* C2: a resetSimulation() issued with a non-empty dataset loaded leaves
\* virtualNow equal to the datasetStart the following ticks run against and
\* the window empty, also when the same click changes the horizon.
C2_ResetReturnsToStart ==
    (lastOp \in {"click24", "click48"} /\ fullData # <<>>)
        => (timeRef = startTimeRef /\ currentData = <<>>)

\* C3: every change of mode with a dataset loaded, in either direction,
\* leaves virtualNow at datasetStart and the window empty for the first tick
\* of the new mode.
C3_ModeChangeResets ==
    [][(isLive' # isLive /\ fullData # <<>>)
          => (timeRef' = startTimeRef' /\ currentData' = <<>>)]_vars

\* the example of C4: ten minutes of data replayed at three minutes a tick
Example4 ==
    /\ startTimeRef = T0
    /\ endTimeRef = T0 + 10
    /\ MsPerTick(replaySpeed) = 3
    /\ lastOp = "tickReplay"

\* C4 as stated: in the example, the value of virtualNow after 4 REPLAY
\* ticks from T0 is T0 + 2 min, the overshoot being carried over the wrap.
C4_WrapCarriesOvershoot == (Example4 /\ replayRun = 4) => timeRef = T0 + 2

\* C4 as amended: in the example virtualNow is T0 + 9 min after 3 REPLAY
\* ticks from T0 and exactly T0 after the 4th, which wraps to datasetStart.
C4_WrapReturnsToStart ==
    /\ (Example4 /\ replayRun = 3) => timeRef = T0 + 9
    /\ (Example4 /\ replayRun = 4) => timeRef = T0

C4_Witness == Example4 /\ replayRun = 4 /\ ~isLive

\* C5 as stated: in LIVE mode, for every time of day and every non-empty
\* dataset, the virtual time a tick produces lies within
\* [datasetStart, datasetEnd].
C5_LiveTickInRange == lastOp = "tickLive" => InRange(timeRef)

\* C5 as amended: in LIVE mode, for every time of day and every dataset
\* that spans at least 24h, the virtual time a tick produces lies within
\* [datasetStart, datasetEnd].
C5_LiveTickInRangeOfDay ==
    (lastOp = "tickLive" /\ endTimeRef - startTimeRef >= Day)
        => InRange(timeRef)

\* a LIVE tick on a day of data that stepped back to the previous day
C5_Witness ==
    /\ lastOp = "tickLive"
    /\ endTimeRef - startTimeRef >= Day
    /\ timeRef < endTimeRef - (endTimeRef % Day)

\* the positions of the dataset's records a window at time now must hold
Qualifying(fd, now) == { i \in 1..Len(fd) : Time(fd[i]) <= now }

\* the k-th smallest member of a set of positions
Kth(idx, k) == CHOOSE i \in idx : Cardinality({ j \in idx : j < i }) = k - 1

\* r is the record d or a copy of it that differs in measurements only
SameReading(r, d) == r.cow_id = d.cow_id /\ r.timestamp = d.timestamp

\* C6: after every tick the window holds, in dataset order, exactly the
\* records of the normalized dataset with timestamp <= the virtualNow of
\* that tick: none missing, none later, order preserved.
C6_WindowIsTimeFilter ==
    Ticked =>
        LET idx == Qualifying(fullData, timeRef) IN
        /\ Len(currentData) = Cardinality(idx)
        /\ \A k \in 1..Len(currentData) :
              SameReading(currentData[k], fullData[Kth(idx, k)])

\* a tick whose window holds some and not all of the dataset
C6_Witness ==
    /\ Ticked
    /\ 0 < Len(currentData)
    /\ Len(currentData) < Len(fullData)

\* C7: across two successive REPLAY ticks with no wraparound, reset or
\* switch in between, every record of the earlier window is in the later.
C7_WindowMonotone ==
    [][(/\ lastOp = "tickReplay"
        /\ lastOp' = "tickReplay"
        /\ timeRef' = timeRef + MsPerTick(replaySpeed))
          => \A i \in 1..Len(currentData) :
                \E j \in 1..Len(currentData') : currentData'[j] = currentData[i]]_vars

\* two REPLAY ticks from datasetStart of which the second grew the window
C7_Witness ==
    /\ lastOp = "tickReplay"
    /\ replayRun = 2
    /\ timeRef = startTimeRef + 2 * MsPerTick(replaySpeed)
    /\ Len(currentData) = 2

\* C8: for datasetStart < datasetEnd the progress a tick publishes is
\* 100 * clamp01((virtualNow - datasetStart) / (datasetEnd - datasetStart)),
\* a number in [0, 100], also for virtualNow outside the dataset range.
C8_ProgressClamped ==
    (Ticked /\ startTimeRef < endTimeRef) =>
        LET num == progress[1]
            den == progress[2]
            total == endTimeRef - startTimeRef
        IN  /\ den > 0
            /\ 0 <= num /\ num <= 100 * den
            /\ timeRef <= startTimeRef => num = 0
            /\ timeRef >= endTimeRef => num = 100 * den
            /\ InRange(timeRef) => num * total = 100 * (timeRef - startTimeRef) * den

\* a tick whose virtualNow is before datasetStart
C8_Witness ==
    /\ Ticked
    /\ startTimeRef < endTimeRef
    /\ timeRef < startTimeRef

\* C9: for a dataset with datasetStart = datasetEnd every tick publishes
\* progress = 100, never a not-a-number.
C9_SingleInstantProgress ==
    (Ticked /\ startTimeRef = endTimeRef) => progress = <<100, 1>>

\* the records of fd are in ascending order of time
Ascending(fd) == \A i \in 1..(Len(fd) - 1) : Time(fd[i]) <= Time(fd[i + 1])

\* the row a record of the dataset was made from
Origin(r) ==
    IF r.timestamp.iso THEN [r EXCEPT !.timestamp = CsvTime(Time(r) + Day)]
    ELSE r

Position(s, r) == CHOOSE i \in 1..Len(s) : s[i] = r

\* among the originals and among the copies of fd, records of one timestamp
\* are in the order their rows have in input
Stable(fd, input) ==
    \A i, j \in 1..Len(fd) :
        (i < j /\ fd[i].timestamp = fd[j].timestamp)
            => Position(input, Origin(fd[i])) < Position(input, Origin(fd[j]))

Span(input) == MaxTs(input) - MinTs(input)

Normalized == lastOp = "load" /\ inputData # <<>>

\* C11 as stated: the normalized dataset is in ascending order of timestamp
\* for every input and every horizon, the 48h extension of a source of more
\* than 24h included, and records of equal timestamp keep the order they
\* have in the input.
C11_AlwaysAscending ==
    Normalized => (Ascending(fullData) /\ Stable(fullData, inputData))

\* C11 as amended: the normalized dataset is in ascending order of timestamp
\* for every input at the 24h horizon and for the 48h extension of every
\* source that spans at most 24h; at both horizons records of equal
\* timestamp keep the order they have in the input.
C11_AscendingWithinADay ==
    Normalized =>
        /\ Stable(fullData, inputData)
        /\ (historyHours <= 24 \/ Span(inputData) <= Day) => Ascending(fullData)

\* the 48h extension of an unsorted day of rows, two of them of one instant
C11_Witness ==
    /\ Normalized
    /\ historyHours = 48
    /\ Span(inputData) = Day
    /\ ~Ascending(inputData)
    /\ \E i, j \in 1..Len(fullData) :
          i < j /\ fullData[i].timestamp = fullData[j].timestamp

\* r is d but for its timestamp
SameButTimestamp(r, d) ==
    \A f \in DOMAIN d : f # "timestamp" => r[f] = d[f]

\* C12: for a source of N records spanning exactly 24h the 48h horizon
\* yields 2N records; record i is record N + i with a timestamp 24h earlier
\* and nothing else changed, records N..2N-1 are the input sorted,
\* datasetEnd is the source's and datasetStart 24h before the source's.
C12_HorizonDoubling ==
    (Normalized /\ historyHours = 48 /\ Span(inputData) = Day) =>
        LET n == Len(inputData)
            originals == SubSeq(fullData, n + 1, 2 * n)
        IN  /\ Len(fullData) = 2 * n
            /\ \A i \in 1..n :
                  /\ Time(fullData[i]) = Time(fullData[n + i]) - Day
                  /\ SameButTimestamp(fullData[i], fullData[n + i])
            /\ { originals[i] : i \in 1..n } = { inputData[i] : i \in 1..n }
            /\ Ascending(originals)
            /\ Stable(originals, inputData)
            /\ endTimeRef = MaxTs(inputData)
            /\ startTimeRef = MinTs(inputData) - Day

\* three rows spanning a day, doubled
C12_Witness ==
    /\ Normalized
    /\ historyHours = 48
    /\ Span(inputData) = Day
    /\ Len(inputData) = 3
    /\ Len(fullData) = 6

\* the shifted copies in fd
Copies(fd) == { i \in 1..Len(fd) : fd[i].timestamp.iso }

\* C13 as stated: whenever horizonHours is no greater than the span of the
\* input, normalization returns as many records as the input has and adds
\* no shifted copy.
C13_NoCopiesWithinSpan ==
    (Normalized /\ historyHours * 60 <= Span(inputData)) =>
        (Len(fullData) = Len(inputData) /\ Copies(fullData) = {})

\* C13 as amended: whenever horizonHours is no greater than 24,
\* normalization returns as many records as the input has and adds no
\* shifted copy; for horizonHours = 48 it adds a shifted copy of every
\* record whatever the span of the input.
C13_NoCopiesWithin24 ==
    Normalized =>
        /\ historyHours <= 24 =>
              (Len(fullData) = Len(inputData) /\ Copies(fullData) = {})
        /\ historyHours > 24 =>
              /\ Len(fullData) = 2 * Len(inputData)
              /\ Cardinality(Copies(fullData)) = Len(inputData)

\* the 48h horizon asked of a source that spans 48h
C13_Witness ==
    /\ Normalized
    /\ historyHours = 48
    /\ Span(inputData) = 2 * Day
    /\ Len(fullData) = 2 * Len(inputData)

C15_NoTickAtNonPositiveSpeed ==
    lastOp = "tickReplay" => (replaySpeed > 0 /\ timeRef >= startTimeRef)

\* C16: in REPLAY mode every window a tick emits holds, field for field,
\* the records of the normalized dataset with timestamp <= virtualNow, in
\* dataset order: the window is a function of the dataset and virtualNow,
\* whatever the random source returns.
C16_ReplayUnperturbed ==
    lastOp = "tickReplay" =>
        LET idx == Qualifying(fullData, timeRef) IN
        /\ Len(currentData) = Cardinality(idx)
        /\ \A k \in 1..Len(currentData) : currentData[k] = fullData[Kth(idx, k)]

\* a REPLAY tick whose window holds two records or more
C16_Witness == lastOp = "tickReplay" /\ ~isLive /\ Len(currentData) >= 2

Abs(x) == IF x < 0 THEN 0 - x ELSE x

\* r is d with every noisy field no further from d's than a draw can be
PerturbedCopy(r, d) ==
    /\ SameReading(r, d)
    /\ \A f \in PctFields \cup SensorFields : Abs(r[f] - d[f]) <= HalfRange(f)

\* C17: LIVE noise never changes history: the rows of the input array and
\* the records of the normalized dataset keep the values they were loaded
\* with; in a non-empty LIVE window only the last element is a perturbed
\* copy, the earlier ones are the dataset's records, and the window is as
\* long as the unperturbed slice.
C17_NoiseLeavesHistory ==
    /\ \A i \in 1..Len(inputData) : inputData[i] \in InputRecords
    /\ \A i \in 1..Len(fullData) : Origin(fullData[i]) \in InputRecords
    /\ (lastOp = "tickLive" /\ currentData # <<>>) =>
          LET idx == Qualifying(fullData, timeRef)
              n == Len(currentData)
          IN  /\ n = Cardinality(idx)
              /\ \A k \in 1..(n - 1) : currentData[k] = fullData[Kth(idx, k)]
              /\ PerturbedCopy(currentData[n], fullData[Kth(idx, n)])

\* a LIVE window of two records or more whose last one differs from the
\* dataset's
C17_Witness ==
    /\ lastOp = "tickLive"
    /\ Len(currentData) >= 2
    /\ currentData[Len(currentData)] \notin { fullData[i] : i \in 1..Len(fullData) }

\* the dataset record the last element of the window was copied from
PreNoise == fullData[Kth(Qualifying(fullData, timeRef), Len(currentData))]

\* C18: in the perturbed last record of a LIVE window each of the four
\* pct_* fields is within [0, 1] and at most 0.005 from its value before
\* the noise, each on its own: their sum is not restored.
C18_NoiseBounded ==
    (lastOp = "tickLive" /\ currentData # <<>>) =>
        \A f \in PctFields :
            LET x == currentData[Len(currentData)][f] IN
            /\ 0 <= x /\ x <= 1000
            /\ Abs(x - PreNoise[f]) <= 5

\* a LIVE tick that lowered pct_lying, raised pct_eating, held pct_walking
\* at 0 and left a sum other than 1
C18_Witness ==
    /\ lastOp = "tickLive"
    /\ currentData # <<>>
    /\ LET last == currentData[Len(currentData)] IN
        /\ last.pct_lying < PreNoise.pct_lying
        /\ last.pct_eating > PreNoise.pct_eating
        /\ last.pct_walking = 0
        /\ last.pct_lying + last.pct_standing + last.pct_walking
              + last.pct_eating # 1000

\* C19: the samples of entity A with states 0, 0, 1, 1, 1, 0 at the
\* timestamps 0, 10, 20, 30, 40, 50, in any input order, give exactly the
\* blocks (A, 0, 0, 10), (A, 1, 20, 40), (A, 0, 50, 50), in that order.
C19_ExampleBlocks ==
    (lastOp = "chart" /\ dataPoints \in ExampleArrays) =>
        chartData.blocks =
            <<[animalId |-> "A", state |-> 0, start |-> 0, end |-> 10],
              [animalId |-> "A", state |-> 1, start |-> 20, end |-> 40],
              [animalId |-> "A", state |-> 0, start |-> 50, end |-> 50]>>

\* the chart of the example given latest sample first
C19_Witness ==
    /\ lastOp = "chart"
    /\ dataPoints = [i \in 1..Len(ExampleRun) |-> ExampleRun[Len(ExampleRun) + 1 - i]]
    /\ Len(chartData.blocks) = 3

\* C20: for every array of samples, no two blocks emitted one after the
\* other are of the same entity and the same state.
C20_BlocksMaximal ==
    lastOp = "chart" =>
        \A i \in 1..(Len(chartData.blocks) - 1) :
            ~(/\ chartData.blocks[i].animalId = chartData.blocks[i + 1].animalId
              /\ chartData.blocks[i].state = chartData.blocks[i + 1].state)

\* three samples of one entity of which two were merged into one block
C20_Witness ==
    /\ lastOp = "chart"
    /\ Len(dataPoints) = 3
    /\ Len(chartData.blocks) = 2
    /\ chartData.blocks[1].animalId = chartData.blocks[2].animalId
    /\ chartData.blocks[1].start < chartData.blocks[1].end

\* the blocks of the chart that have the entity and the state of sample p
\* and a range that holds its timestamp
Covering(p) ==
    { k \in 1..Len(chartData.blocks) :
        /\ chartData.blocks[k].animalId = p.animalId
        /\ chartData.blocks[k].state = p.state
        /\ chartData.blocks[k].start <= p.timestamp
        /\ p.timestamp <= chartData.blocks[k].end }

\* no entity has samples of different states at one timestamp
OneStateATime(points) ==
    \A i, j \in 1..Len(points) :
        (points[i].animalId = points[j].animalId
            /\ points[i].timestamp = points[j].timestamp)
          => points[i].state = points[j].state

\* C21 as stated: for every array of samples each sample is covered by
\* exactly one block (of its entity and state, with a range that holds its
\* timestamp), there are no more blocks than samples, and no samples give
\* no blocks.
C21_EverySampleInOneBlock ==
    lastOp = "chart" =>
        /\ \A i \in 1..Len(dataPoints) : Cardinality(Covering(dataPoints[i])) = 1
        /\ Len(chartData.blocks) <= Len(dataPoints)
        /\ dataPoints = <<>> => chartData.blocks = <<>>

\* C21 as amended: every sample is covered by at least one block, by
\* exactly one when no entity has samples of different states at one
\* timestamp; there are no more blocks than samples, and no samples give no
\* blocks.
C21_EverySampleCovered ==
    lastOp = "chart" =>
        /\ \A i \in 1..Len(dataPoints) : Covering(dataPoints[i]) # {}
        /\ OneStateATime(dataPoints) =>
              \A i \in 1..Len(dataPoints) :
                  Cardinality(Covering(dataPoints[i])) = 1
        /\ Len(chartData.blocks) <= Len(dataPoints)
        /\ dataPoints = <<>> => chartData.blocks = <<>>

\* three samples of two entities in three blocks
C21_Witness ==
    /\ lastOp = "chart"
    /\ Len(dataPoints) = 3
    /\ OneStateATime(dataPoints)
    /\ Len(chartData.blocks) = 3
    /\ chartData.blocks[1].animalId # chartData.blocks[3].animalId

\* C22 as stated: for every array of samples, those with several samples
\* of one entity at one timestamp included, every block has start <= end
\* and of two blocks of one entity the earlier emitted ends strictly before
\* the later starts.
C22_BlocksDisjoint ==
    lastOp = "chart" =>
        /\ \A k \in 1..Len(chartData.blocks) :
              chartData.blocks[k].start <= chartData.blocks[k].end
        /\ \A k, m \in 1..Len(chartData.blocks) :
              (k < m /\ chartData.blocks[k].animalId = chartData.blocks[m].animalId)
                => chartData.blocks[k].end < chartData.blocks[m].start

\* C22 as amended: every block has start <= end and of two blocks of one
\* entity the earlier emitted ends no later than the later starts, and
\* strictly before it when the entity has no samples of different states
\* at one timestamp.
C22_BlocksOrdered ==
    lastOp = "chart" =>
        /\ \A k \in 1..Len(chartData.blocks) :
              chartData.blocks[k].start <= chartData.blocks[k].end
        /\ \A k, m \in 1..Len(chartData.blocks) :
              (k < m /\ chartData.blocks[k].animalId = chartData.blocks[m].animalId)
                => /\ chartData.blocks[k].end <= chartData.blocks[m].start
                   /\ OneStateATime(dataPoints)
                        => chartData.blocks[k].end < chartData.blocks[m].start

\* two blocks of one entity that meet at a timestamp
C22_Witness ==
    /\ lastOp = "chart"
    /\ Len(chartData.blocks) = 2
    /\ chartData.blocks[1].animalId = chartData.blocks[2].animalId
    /\ chartData.blocks[1].start < chartData.blocks[1].end
    /\ chartData.blocks[1].end = chartData.blocks[2].start

\* the orders of n things, for every n up to the length of ExampleRun
Orders ==
    [n \in 0..Len(ExampleRun) |->
        { q \in [1..n -> 1..n] : \A i, j \in 1..n : i # j => q[i] # q[j] }]

\* the array s in every order
Rearranged(s) == { [i \in 1..Len(s) |-> s[q[i]]] : q \in Orders[Len(s)] }

\* no entity has two samples at one timestamp
OneSampleATime(points) ==
    \A i, j \in 1..Len(points) :
        (i # j /\ points[i].animalId = points[j].animalId)
            => points[i].timestamp # points[j].timestamp

\* C30: rendering the chart leaves the dataPoints array as it was, and when
\* no entity has two samples at one timestamp the blocks are the blocks of
\* the same samples given in any other order.
C30_OrderIndependent ==
    [][lastOp' = "chart" =>
        /\ dataPoints' = dataPoints
        /\ OneSampleATime(dataPoints) =>
              \A q \in Rearranged(dataPoints) :
                  ChartData(q).blocks = chartData'.blocks]_vars

\* the chart of three samples of one entity given latest first
C30_Witness ==
    /\ lastOp = "chart"
    /\ Len(dataPoints) = 3
    /\ OneSampleATime(dataPoints)
    /\ dataPoints[1].animalId = dataPoints[3].animalId
    /\ dataPoints[1].timestamp > dataPoints[2].timestamp
    /\ dataPoints[2].timestamp > dataPoints[3].timestamp
    /\ Len(chartData.blocks) = 2

\* C23: in REPLAY mode with a timer running on an unchanged dataset,
\* whenever the timer is let fire, a tick that leaves virtualNow at
\* datasetStart always lies ahead: the clock wraps again and again.
C23_WrapsForever ==
    (~isLive /\ timers # {}) ~> (lastOp = "tickReplay" /\ timeRef = startTimeRef)

\* a REPLAY tick that wrapped to the start of a dataset of some length
C23_Witness ==
    /\ lastOp = "tickReplay"
    /\ startTimeRef < endTimeRef
    /\ timeRef = startTimeRef
    /\ replayRun = 0
    /\ currentData # <<>>

\* C24: from a virtualNow v one REPLAY tick sets virtualNow to
\* v + replaySpeed / 10 minutes (6 minutes at replaySpeed 60) when that is
\* strictly below datasetEnd, and to datasetStart otherwise.
C24_ReplayTickRule ==
    [][lastOp' = "tickReplay" =>
        LET sum == timeRef + (replaySpeed \div 10) IN
        /\ sum < endTimeRef => timeRef' = sum
        /\ sum >= endTimeRef => timeRef' = startTimeRef
        /\ (replaySpeed = 60 /\ sum < endTimeRef) => timeRef' = timeRef + 6]_vars

\* a first REPLAY tick at replaySpeed 60, six minutes into the dataset
C24_Witness ==
    /\ lastOp = "tickReplay"
    /\ replaySpeed = 60
    /\ replayRun = 1
    /\ timeRef = startTimeRef + 6
    /\ timeRef < endTimeRef

\* the published progress is 100
ProgressIs100 == progress[2] > 0 /\ progress[1] = 100 * progress[2]

\* the window holds a record whose timestamp is datasetEnd
HoldsEnd == \E k \in 1..Len(currentData) : Time(currentData[k]) = endTimeRef

\* C28 as stated: after any REPLAY tick virtualNow is strictly less than
\* datasetEnd, no record with timestamp datasetEnd is in the window and the
\* published progress is not 100.
C28_ReplayBelowEnd ==
    lastOp = "tickReplay" =>
        (timeRef < endTimeRef /\ ~HoldsEnd /\ ~ProgressIs100)

\* C28 as amended: after any REPLAY tick on a dataset with
\* datasetStart < datasetEnd virtualNow is strictly less than datasetEnd
\* and no record with timestamp datasetEnd is in the window; on a dataset
\* of a single instant virtualNow is datasetEnd and the window holds the
\* whole dataset; in both cases the published progress is not 100.
C28_ReplayBelowLaterEnd ==
    lastOp = "tickReplay" =>
        /\ startTimeRef < endTimeRef => (timeRef < endTimeRef /\ ~HoldsEnd)
        /\ startTimeRef = endTimeRef => (timeRef = endTimeRef /\ currentData = fullData)
        /\ ~ProgressIs100

\* a REPLAY tick that wrapped from the last step before datasetEnd
C28_Witness ==
    /\ lastOp = "tickReplay"
    /\ startTimeRef < endTimeRef
    /\ timeRef = startTimeRef
    /\ replayRun = 0
    /\ (endTimeRef - startTimeRef) % MsPerTick(replaySpeed) = 0
    /\ Len(currentData) < Len(fullData)

\* C27: what a LIVE tick publishes is a function of the wall clock's time
\* of day, the dataset and its bounds: virtualNow is the date of datasetEnd
\* at that time of day, a day earlier when that is after datasetEnd and a
\* day later when the result is before datasetStart, whatever virtualNow
\* was before (a reset value included); progress and the size of the window
\* follow from it.
C27_LiveTickFromClock ==
    lastOp = "tickLive" =>
        \E tod \in TODs :
            LET t0 == (endTimeRef - (endTimeRef % Day)) + tod
                t1 == IF t0 > endTimeRef THEN t0 - Day ELSE t0
                now == IF t1 < startTimeRef THEN t1 + Day ELSE t1
            IN  /\ timeRef = now
                /\ currentTime = now
                /\ progress = Progress(now, startTimeRef, endTimeRef)
                /\ Len(currentData) = Cardinality(Qualifying(fullData, now))

\* a LIVE tick that published a time other than datasetStart
C27_Witness ==
    /\ lastOp = "tickLive"
    /\ isLive
    /\ timeRef # startTimeRef
    /\ currentData # <<>>

\* C29: resetSimulation() leaves progress, the input, the dataset, its
\* bounds, the props and the timer as they were; with the bounds set it
\* sets virtualNow and currentTime to datasetStart and empties the window,
\* and with no bounds set it changes nothing.
C29_ResetFrame ==
    [][lastOp' = "reset" =>
        /\ UNCHANGED <<progress, inputData, fullData, startTimeRef, endTimeRef,
                       isLive, replaySpeed, historyHours, timers>>
        /\ startTimeRef # Null =>
              (timeRef' = startTimeRef /\ currentTime' = startTimeRef
                  /\ currentData' = <<>>)
        /\ startTimeRef = Null => UNCHANGED <<timeRef, currentTime, currentData>>]_vars

\* after a reset: virtualNow at datasetStart, the progress of the tick
\* before it still published
C29_Witness ==
    /\ lastOp = "reset"
    /\ timers # {}
    /\ timeRef = startTimeRef
    /\ currentData = <<>>
    /\ progress[1] > 0

\* the step is a reset, a switch of horizon or a switch of mode
Switched ==
    \/ lastOp' \in {"click24", "click48"}
    \/ lastOp' = "clickLive" /\ ~isLive

\* C25: once a switch or reset has been made with a dataset loaded, the one
\* timer left is the timer of the new mode, replaySpeed and dataset, and
\* the tick that follows finds virtualNow at datasetStart and the window
\* empty.
C25_SwitchApplied ==
    [][(Switched /\ fullData' # <<>>) =>
        /\ timers' = {[fullData |-> fullData', isLive |-> isLive',
                       replaySpeed |-> replaySpeed']}
        /\ timeRef' = startTimeRef'
        /\ currentData' = <<>>]_vars

\* C26: an instance has at most one interval timer at any time, whatever
\* changes of dataset, mode and replaySpeed came before, and once it is
\* torn down it has none: no tick can run and none has run since.
C26_SingleTimer ==
    /\ Cardinality(timers) <= 1
    /\ view = "unmounted" =>
          (timers = {} /\ ~ENABLED Tick /\ lastOp = "unmount")

\* a view torn down while its timer was running
C26_Witness ==
    /\ view = "unmounted"
    /\ fullData # <<>>
    /\ currentData # <<>>
    /\ historyHours = 48

\* C10: while the input dataset is empty no timer runs and no tick has run:
\* currentTime is null, the window empty and progress 0; when a dataset with
\* a record arrives virtualNow is datasetStart and a timer is running.
C10_StoppedUntilData ==
    /\ inputData = <<>> =>
          /\ timers = {}
          /\ ~ENABLED Tick
          /\ ~Ticked
          /\ currentTime = Null
          /\ currentData = <<>>
          /\ progress = ZeroProgress
    /\ (lastOp = "load" /\ inputData # <<>>) =>
          /\ timeRef = startTimeRef
          /\ timeRef = MinTs(fullData)
          /\ timers # {}
          /\ ENABLED Tick

\* a dataset has just arrived
C10_Witness == lastOp = "load" /\ Len(inputData) > 0 /\ timers # {}

====
